---------------------------- MODULE Spec2Model ----------------------------
(***************************************************************************)
(* Model of src/Vizing/vizing_main.py: the Multigraph container, the       *)
(* per-vertex colour bookkeeping (Vertex.colors, Vertex.missing_cache),    *)
(* Edge.color_with and the greedy pass Multigraph.edge_coloring.           *)
(*                                                                         *)
(* A graph is the record G = [vertices, edges, colors, edge_lookup].       *)
(* Edge objects are referred to by their position in G.edges, vertices by  *)
(* their ident (the key of Multigraph.vertices).  A Python dict is a       *)
(* function whose DOMAIN is the set of keys.                               *)
(***************************************************************************)
EXTENDS Integers, Sequences, FiniteSets, TLC

\* Bounds of the explored inputs.
MaxEdges == 7
MaxDeg == 3

\* The (x, y) arguments add_edge is called with: the cycle 1-2-3, the
\* pendant edge 3-4 and a self-loop at 4; every pair may be repeated
\* (parallel edges).
EdgePairs == {<<1, 2>>, <<2, 3>>, <<3, 1>>, <<3, 4>>, <<4, 4>>}

\* The multiplicity tag m passed to add_edge (stored, never read).
Mults == {1}

VARIABLES G, pc, i, delta, input, last, other

vars == <<G, pc, i, delta, input, last, other>>

-----------------------------------------------------------------------------
\* Python dict / defaultdict(int) primitives.

EmptyDict == [k \in {} |-> 0]

\* d.get(k, 0); also the value d[k] reads on a defaultdict(int)
Get(d, k) == IF k \in DOMAIN d THEN d[k] ELSE 0

\* d[k] = v
Set(d, k, v) == [kk \in (DOMAIN d) \cup {k} |-> IF kk = k THEN v ELSE d[kk]]

\* del d[k]
Del(d, k) == [kk \in (DOMAIN d) \ {k} |-> d[kk]]

-----------------------------------------------------------------------------
\* Iteration over a Python set.  The language fixes no order.  Ascending(S)
\* is one order; Iterations(S) are the orders explored where the order is left
\* open: the ascending and the descending order and all their rotations, so
\* that every element comes first in some order and last in another (for up
\* to three elements these are all the orders).

RECURSIVE Ascending(_)
Ascending(S) ==
    IF S = {} THEN <<>>
    ELSE LET least == CHOOSE x \in S : \A y \in S : x <= y
         IN  <<least>> \o Ascending(S \ {least})

Reverse(s) == [j \in 1 .. Len(s) |-> s[Len(s) + 1 - j]]

Rotate(s, r) == [j \in 1 .. Len(s) |-> s[((j + r - 2) % Len(s)) + 1]]

Iterations(S) ==
    IF S = {} THEN {<<>>}
    ELSE {Rotate(Ascending(S), r) : r \in 1 .. Cardinality(S)}
            \cup {Rotate(Reverse(Ascending(S)), r) : r \in 1 .. Cardinality(S)}

\* A min() that returns the first element iterated.
min_first(s) == s[1]

\* min(iterable): keep the first element, replace it by each later element
\* that is smaller.
RECURSIVE min(_)
min(s) ==
    IF Len(s) = 1 THEN s[1]
    ELSE LET m == min(SubSeq(s, 1, Len(s) - 1))
         IN  IF s[Len(s)] < m THEN s[Len(s)] ELSE m

\* max(iterable): keep the first element, replace it by each later element
\* that is larger.
RECURSIVE max(_)
max(s) ==
    IF Len(s) = 1 THEN s[1]
    ELSE LET m == max(SubSeq(s, 1, Len(s) - 1))
         IN  IF s[Len(s)] > m THEN s[Len(s)] ELSE m

-----------------------------------------------------------------------------
\* Edge.__init__
Edge(ident, x, y, m) ==
    [ident |-> ident, x |-> x, y |-> y, m |-> m, color |-> 0]

\* Vertex.__init__
Vertex(ident) ==
    [ident |-> ident, edges |-> {}, colors |-> EmptyDict, missing_cache |-> {}]

\* Multigraph.__init__
Multigraph ==
    [vertices |-> EmptyDict, edges |-> <<>>, colors |-> {},
     edge_lookup |-> EmptyDict]

\* Vertex.degree
degree(v) == Cardinality(v.edges)

\* Multigraph.add_vertex
add_vertex(g, ident) ==
    IF ident \in DOMAIN g.vertices THEN g
    ELSE [g EXCEPT !.vertices = Set(@, ident, Vertex(ident))]

\* tuple(sorted((x, y)))
sorted(x, y) == IF x <= y THEN <<x, y>> ELSE <<y, x>>

\* Multigraph.add_edge
add_edge(g, ident, x, y, m) ==
    LET g1 == add_vertex(add_vertex(g, x), y)
        k  == Len(g.edges) + 1
        g2 == [g1 EXCEPT !.edges = Append(@, Edge(ident, x, y, m))]
        g3 == [g2 EXCEPT !.vertices[x].edges = @ \cup {k}]
        g4 == [g3 EXCEPT !.vertices[y].edges = @ \cup {k}]
    IN  [g4 EXCEPT !.edge_lookup = Set(@, sorted(x, y), Get(@, sorted(x, y)) + 1)]

\* update_missing_colors without the subtraction of the used colours.
update_missing_colors_all(g, v) ==
    [g EXCEPT !.vertices[v].missing_cache = g.colors]

\* Vertex.update_missing_colors
update_missing_colors(g, v) ==
    [g EXCEPT !.vertices[v].missing_cache = g.colors \ DOMAIN g.vertices[v].colors]

\* missing_colors returning the cache without refreshing it.
missing_colors_stale(g, v) == g

\* Vertex.missing_colors: the graph after the call; the value returned is
\* the refreshed missing_cache of v.
missing_colors(g, v) == update_missing_colors(g, v)

\* color_with without the release of the edge's current colour.
color_with_keep(g, k, c) ==
    LET e   == g.edges[k]
        vc0 == [v \in DOMAIN g.vertices |-> g.vertices[v].colors]
        vc6 == [vc0 EXCEPT ![e.x] = Set(@, c, Get(@, c) + 1)]
        vc7 == [vc6 EXCEPT ![e.y] = Set(@, c, Get(@, c) + 1)]
    IN  [g EXCEPT !.edges[k].color = c,
                  !.vertices = [v \in DOMAIN @ |-> [@[v] EXCEPT !.colors = vc7[v]]]]

\* Edge.color_with, statement by statement on the endpoints' colors dicts.
color_with(g, k, c) ==
    LET e   == g.edges[k]
        old == e.color
        vc0 == [v \in DOMAIN g.vertices |-> g.vertices[v].colors]
        vc1 == [vc0 EXCEPT ![e.x] = Set(@, old, Get(@, old) - 1)]
        vc2 == [vc1 EXCEPT ![e.y] = Set(@, old, Get(@, old) - 1)]
        vc3 == IF Get(vc2[e.x], old) = 0
               THEN [vc2 EXCEPT ![e.x] = Del(@, old)] ELSE vc2
        vc4 == IF Get(vc3[e.y], old) = 0
               THEN [vc3 EXCEPT ![e.y] = Del(@, old)] ELSE vc3
        vc5 == IF old # 0 THEN vc4 ELSE vc0
        vc6 == [vc5 EXCEPT ![e.x] = Set(@, c, Get(@, c) + 1)]
        vc7 == [vc6 EXCEPT ![e.y] = Set(@, c, Get(@, c) + 1)]
    IN  [g EXCEPT !.edges[k].color = c,
                  !.vertices = [v \in DOMAIN @ |-> [@[v] EXCEPT !.colors = vc7[v]]]]

-----------------------------------------------------------------------------
\* Multigraph.edge_coloring, one loop iteration per step.

\* The graph after both missing_colors() calls of iteration k.
AfterMissing(g, k) ==
    missing_colors(missing_colors(g, g.edges[k].x), g.edges[k].y)

\* available = missing_x & missing_y
available(g, k) ==
    LET g2 == AfterMissing(g, k)
    IN  g2.vertices[g.edges[k].x].missing_cache
            \cap g2.vertices[g.edges[k].y].missing_cache

\* delta = max(v.degree() for v in self.vertices.values())
max_degree(g) ==
    CHOOSE d \in {degree(g.vertices[v]) : v \in DOMAIN g.vertices} :
        \A v \in DOMAIN g.vertices : degree(g.vertices[v]) <= d

\* The `if available:` branch, min() iterating available in the order ord.
color_available(g, k, ord) == color_with(AfterMissing(g, k), k, min(ord))

\* A new colour that skips one.
new_color_skip(ord) == max(ord) + 2

\* new_color = max(self.colors) + 1, max() iterating self.colors in the
\* order ord.
new_color(ord) == max(ord) + 1

\* The `else:` branch.
color_new(g, k, ord) ==
    color_with([AfterMissing(g, k) EXCEPT !.colors = @ \cup {new_color(ord)}],
               k, new_color(ord))

\* The body of the for loop on edge k: the graphs it can end in, over the
\* explored iteration orders of the set it iterates.
iteration(g, k) ==
    IF available(g, k) # {}
    THEN {color_available(g, k, ord) : ord \in Iterations(available(g, k))}
    ELSE {color_new(g, k, ord) : ord \in Iterations(AfterMissing(g, k).colors)}

\* A loop that stops one edge early.
after_iteration_short(g, k) == IF k >= Len(g.edges) - 1 THEN "done" ELSE "color"

\* pc after iteration k of the for loop
after_iteration(g, k) == IF k = Len(g.edges) THEN "done" ELSE "color"

\* edge_coloring up to the first loop iteration: the run [G, pc, i, delta].
\* On a graph without vertices max() of an empty sequence raises ValueError
\* before anything is assigned.
edge_coloring_begin(g) ==
    IF DOMAIN g.vertices = {}
    THEN [G |-> g, pc |-> "error", i |-> 0, delta |-> 0]
    ELSE [G |-> [g EXCEPT !.colors = 1 .. (max_degree(g) + 1)],
          pc |-> "color", i |-> 1, delta |-> max_degree(g)]

-----------------------------------------------------------------------------
NoCall == [op |-> "none", same |-> FALSE, loop |-> FALSE]

Init ==
    /\ G = Multigraph
    /\ pc = "build"
    /\ i = 0
    /\ delta = 0
    /\ input = <<>>
    /\ last = NoCall
    /\ other = [G |-> Multigraph, pc |-> "build", i |-> 0, delta |-> 0]

\* The add_edge calls explored: at most n edges, no vertex above MaxDeg.
CanAdd(n, x, y) ==
    /\ pc = "build"
    /\ Len(G.edges) < n
    /\ \A v \in {x, y} : v \in DOMAIN G.vertices => degree(G.vertices[v]) < MaxDeg

\* main: G.add_edge(edge_id, x, y, m); edge_id += 1
AddEdgeUpTo(n) ==
    \E p \in EdgePairs, m \in Mults :
        /\ CanAdd(n, p[1], p[2])
        /\ G' = add_edge(G, Len(G.edges) + 1, p[1], p[2], m)
        /\ input' = Append(input, <<Len(G.edges) + 1, p[1], p[2]>>)
        /\ UNCHANGED <<pc, i, delta, last, other>>

AddEdge == AddEdgeUpTo(MaxEdges)

\* edge_coloring on a graph without vertices: ValueError.
StartEmpty ==
    /\ pc = "build"
    /\ DOMAIN G.vertices = {}
    /\ pc' = edge_coloring_begin(G).pc
    /\ UNCHANGED <<G, i, delta, input, last, other>>

\* edge_coloring: delta and the initial palette.
Start ==
    /\ pc = "build"
    /\ DOMAIN G.vertices # {}
    /\ G' = edge_coloring_begin(G).G
    /\ pc' = edge_coloring_begin(G).pc
    /\ i' = edge_coloring_begin(G).i
    /\ delta' = edge_coloring_begin(G).delta
    /\ UNCHANGED <<input, last, other>>

\* A loop iteration taking the `if available:` branch.
ColorAvailable ==
    /\ pc = "color"
    /\ available(G, i) # {}
    /\ G' = color_available(G, i, Ascending(available(G, i)))
    /\ i' = i + 1
    /\ pc' = after_iteration(G, i)
    /\ UNCHANGED <<delta, input, last, other>>

\* A loop iteration taking the `else:` branch.
ColorNew ==
    /\ pc = "color"
    /\ available(G, i) = {}
    /\ G' = color_new(G, i, Ascending(AfterMissing(G, i).colors))
    /\ i' = i + 1
    /\ pc' = after_iteration(G, i)
    /\ UNCHANGED <<delta, input, last, other>>

Next == AddEdge \/ StartEmpty \/ Start \/ ColorAvailable \/ ColorNew

Spec == Init /\ [][Next]_vars

-----------------------------------------------------------------------------
\* Two Multigraph instances, G and other.G, populated by the same add_edge
\* calls and each run through edge_coloring, iteration by iteration; every
\* set iteration of either run takes its own order.

MaxPairEdges == 6

\* The (x, y) arguments of the two-instance runs: a triangle whose edges may
\* be repeated.
PairEdgePairs == {<<1, 2>>, <<2, 3>>, <<3, 1>>}

AddEdgeBoth ==
    \E p \in PairEdgePairs, m \in Mults :
        /\ pc = "build"
        /\ other.pc = "build"
        /\ Len(G.edges) < MaxPairEdges
        /\ G' = add_edge(G, Len(G.edges) + 1, p[1], p[2], m)
        /\ other' = [other EXCEPT
                        !.G = add_edge(@, Len(other.G.edges) + 1, p[1], p[2], m)]
        /\ input' = Append(input, <<Len(G.edges) + 1, p[1], p[2]>>)
        /\ UNCHANGED <<pc, i, delta, last>>

StartBoth ==
    /\ pc = "build"
    /\ other.pc = "build"
    /\ G' = edge_coloring_begin(G).G
    /\ pc' = edge_coloring_begin(G).pc
    /\ i' = edge_coloring_begin(G).i
    /\ delta' = edge_coloring_begin(G).delta
    /\ other' = edge_coloring_begin(other.G)
    /\ UNCHANGED <<input, last>>

ColorBoth ==
    /\ pc = "color"
    /\ other.pc = "color"
    /\ \E g \in iteration(G, i), h \in iteration(other.G, other.i) :
        /\ G' = g
        /\ other' = [other EXCEPT !.G = h, !.i = @ + 1,
                                  !.pc = after_iteration(other.G, other.i)]
    /\ i' = i + 1
    /\ pc' = after_iteration(G, i)
    /\ UNCHANGED <<delta, input, last>>

NextPair == AddEdgeBoth \/ StartBoth \/ ColorBoth

SpecPair == Init /\ [][NextPair]_vars

-----------------------------------------------------------------------------
\* Edge.color_with called directly on the edges of a small graph, with any
\* colour of 1 .. MaxColor, before or between add_edge calls.

MaxFew == 2
MaxColor == 2

AddEdgeFew == AddEdgeUpTo(MaxFew)

ColorWith ==
    \E k \in 1 .. Len(G.edges), c \in 1 .. MaxColor :
        /\ pc = "build"
        /\ G' = color_with(G, k, c)
        /\ last' = [op |-> "color_with", same |-> (G.edges[k].color = c),
                    loop |-> (G.edges[k].x = G.edges[k].y)]
        /\ UNCHANGED <<pc, i, delta, input, other>>

NextRecolor == AddEdgeFew \/ ColorWith

SpecRecolor == Init /\ [][NextRecolor]_vars

-----------------------------------------------------------------------------
\* Vocabulary of the properties, read off the edge list alone.

Endpoints(e) == {e.x, e.y}

Colored(g) == {k \in 1 .. Len(g.edges) : g.edges[k].color # 0}

\* The edges a vertex is an endpoint of.
IncidentEdges(g, v) == {k \in 1 .. Len(g.edges) : v \in Endpoints(g.edges[k])}

\* The colours carried by the coloured edges at a vertex.
IncidentColors(g, v) == {g.edges[k].color : k \in IncidentEdges(g, v) \cap Colored(g)}

Adjacent(g, j, k) ==
    /\ j # k
    /\ \/ g.edges[j].x = g.edges[k].x
       \/ g.edges[j].x = g.edges[k].y
       \/ g.edges[j].y = g.edges[k].x
       \/ g.edges[j].y = g.edges[k].y

UsedColors(g) == {g.edges[k].color : k \in Colored(g)}

Least(S) == CHOOSE x \in S : \A y \in S : x <= y

\* The least positive integer outside S.
LeastAbsent(S) == Least((1 .. (Cardinality(S) + 1)) \ S)

Larger(a, b) == IF a >= b THEN a ELSE b

\* The colours of the coloured edges that share an endpoint with edge k.
NeighbourColors(g, k) ==
    {g.edges[j].color :
        j \in {j \in 1 .. Len(g.edges) : g.edges[j].color # 0 /\ Adjacent(g, j, k)}}

Running == pc \in {"color", "done"}

SumCounts(d) ==
    LET RECURSIVE Sum(_)
        Sum(K) == IF K = {} THEN 0
                  ELSE LET c == CHOOSE c \in K : TRUE IN d[c] + Sum(K \ {c})
    IN  Sum(DOMAIN d)

-----------------------------------------------------------------------------
\* C1 (properness): in every state, before, during and after edge_coloring,
\* any two distinct coloured edges that share a vertex (by the vertex's own
\* edge set and by their endpoints) carry different colours; in particular
\* after the call returns.
C1_Properness ==
    /\ \A v \in DOMAIN G.vertices : \A j, k \in G.vertices[v].edges :
          (j < k /\ G.edges[j].color # 0 /\ G.edges[k].color # 0)
              => G.edges[j].color # G.edges[k].color
    /\ \A j, k \in 1 .. Len(G.edges) :
          (j < k /\ G.edges[j].color # 0 /\ G.edges[k].color # 0
                 /\ Adjacent(G, j, k))
              => G.edges[j].color # G.edges[k].color

\* A finished run on a graph with two parallel edges, a self-loop and an edge
\* that took the else branch.
C1_Witness ==
    /\ pc = "done"
    /\ \E j, k \in 1 .. Len(G.edges) :
          j # k /\ Endpoints(G.edges[j]) = Endpoints(G.edges[k])
    /\ \E k \in 1 .. Len(G.edges) : G.edges[k].x = G.edges[k].y
    /\ Cardinality(G.colors) > delta + 1

\* C2 (bound): after edge_coloring returns, the number of distinct colours on
\* the edges is at most delta + 1.
C2_Bound == pc = "done" => Cardinality(UsedColors(G)) <= delta + 1

\* C3 (completeness): the edge list always holds exactly the edges added
\* (idents, endpoints, order); while the loop runs, exactly the edges before
\* position i are coloured; every iteration colours the edge at position i,
\* which was uncoloured, with a colour >= 1, leaves the other edges' colours
\* alone and moves to position i + 1, returning after the last edge; when
\* the call has returned every edge has been passed and every colour is >= 1.
C3_Completeness ==
    /\ [](/\ [k \in 1 .. Len(G.edges) |->
                 <<G.edges[k].ident, G.edges[k].x, G.edges[k].y>>] = input
          /\ pc = "build" => Colored(G) = {}
          /\ pc = "color" => (i \in 1 .. Len(G.edges) /\ Colored(G) = 1 .. (i - 1))
          /\ pc = "done" => /\ i = Len(G.edges) + 1
                            /\ \A k \in 1 .. Len(G.edges) : G.edges[k].color >= 1)
    /\ [][pc = "color" =>
            /\ i' = i + 1
            /\ pc' = IF i = Len(G.edges) THEN "done" ELSE "color"
            /\ G.edges[i].color = 0
            /\ G'.edges[i].color >= 1
            /\ \A k \in 1 .. Len(G.edges) :
                  k # i => G'.edges[k].color = G.edges[k].color]_vars

\* A finished run on five or more edges, two of them parallel.
C3_Witness ==
    /\ pc = "done"
    /\ Len(G.edges) >= 5
    /\ \E j, k \in 1 .. Len(G.edges) :
          j # k /\ Endpoints(G.edges[j]) = Endpoints(G.edges[k])
    /\ \A k \in 1 .. Len(G.edges) : G.edges[k].color >= 1

\* C4 (determinism): two instances populated by the same add_edge calls and
\* both run through edge_coloring, whatever order each set iteration takes,
\* end with the same colour on every edge and the same palette.
C4_Determinism ==
    (pc = "done" /\ other.pc = "done") =>
        /\ Len(G.edges) = Len(other.G.edges)
        /\ \A k \in 1 .. Len(G.edges) : G.edges[k].color = other.G.edges[k].color
        /\ G.colors = other.G.colors

\* Both runs finished on a graph where some edge took the else branch and
\* some edge a colour above 1 of the initial palette.
C4_Witness ==
    /\ pc = "done"
    /\ other.pc = "done"
    /\ Cardinality(G.colors) > delta + 1
    /\ \E k \in 1 .. Len(G.edges) : G.edges[k].color \in 2 .. (delta + 1)

\* C5 (recolor idempotence): a color_with(c) call on an edge whose colour is
\* already c leaves every edge's colour and every vertex's colour->count map
\* as they were.
C5_RecolorIdempotent ==
    [][(input' = input /\ last'.op = "color_with" /\ last'.same)
          => /\ G'.edges = G.edges
             /\ \A v \in DOMAIN G.vertices :
                   G'.vertices[v].colors = G.vertices[v].colors]_vars

\* The state after color_with(c) on a self-loop already coloured c, beside a
\* second edge at the same vertex.
C5_Witness ==
    /\ last.op = "color_with"
    /\ last.same
    /\ last.loop
    /\ \E v \in DOMAIN G.vertices :
          /\ Cardinality(G.vertices[v].edges) >= 2
          /\ \E c \in DOMAIN G.vertices[v].colors : G.vertices[v].colors[c] >= 2

\* C6 (empty graph): edge_coloring on a graph without vertices takes delta = 0,
\* sets the palette to {1} and returns normally.
C6_EmptyGraph ==
    (pc # "build" /\ DOMAIN G.vertices = {}) =>
        (pc = "done" /\ delta = 0 /\ G.colors = {1})

\* C7 (no palette growth): once initialised, the palette is 1 .. delta + 1 in
\* every state of a run.
C7_NoGrowth == Running => G.colors = 1 .. (delta + 1)

\* C8 (incidence counts): for every vertex v and colour c, v.colors[c] is the
\* number of edges of v.edges coloured c; there is no entry with count 0 and
\* none for the sentinel 0; once all edges at v are coloured the counts sum
\* to v.degree().
C8_IncidenceCounts ==
    \A v \in DOMAIN G.vertices :
        LET vert == G.vertices[v]
        IN  /\ \A c \in DOMAIN vert.colors \cup IncidentColors(G, v) :
                  Get(vert.colors, c)
                      = Cardinality({k \in vert.edges : G.edges[k].color = c})
            /\ \A c \in DOMAIN vert.colors : vert.colors[c] # 0 /\ c # 0
            /\ (vert.edges \subseteq Colored(G))
                  => SumCounts(vert.colors) = degree(vert)

\* C9 (minimum-available rule): in every loop iteration, on edge (x, y), the
\* sets missing_colors() returns at x and at y are the palette minus the
\* colours of the edges incident to that vertex; when they intersect, the
\* edge receives the least colour of the intersection and the palette and
\* all other edges stay as they were.
C9_MinimumAvailable ==
    [][pc = "color" =>
        LET e  == G.edges[i]
            mx == G.colors \ IncidentColors(G, e.x)
            my == G.colors \ IncidentColors(G, e.y)
        IN  /\ G'.vertices[e.x].missing_cache = mx
            /\ G'.vertices[e.y].missing_cache = my
            /\ (mx \cap my # {}) =>
                  /\ G'.edges[i].color = Least(mx \cap my)
                  /\ G'.colors = G.colors
                  /\ \A k \in 1 .. Len(G.edges) :
                        k # i => G'.edges[k] = G.edges[k]]_vars

\* The state after an iteration that found colours missing at both endpoints
\* and gave the edge one above 1, its endpoints caching different sets.
C9_Witness ==
    /\ Running
    /\ i >= 3
    /\ G.edges[i - 1].color \in 2 .. (delta + 1)
    /\ G.vertices[G.edges[i - 1].x].missing_cache
          # G.vertices[G.edges[i - 1].y].missing_cache
    /\ G.edges[i - 1].color \in G.vertices[G.edges[i - 1].x].missing_cache
                                  \cap G.vertices[G.edges[i - 1].y].missing_cache

=============================================================================
